---- MODULE Spec2Model ----
(***************************************************************************)
(* Model of the prompt-as-code harness (harness/runner.ts,                *)
(* harness/llm-client.ts, harness/cli.ts and harness/reporter.ts).         *)
(*                                                                         *)
(* Text is a sequence of one-character strings, so that substitution,      *)
(* lower-casing and substring search are computed character by character.  *)
(* An optional JavaScript value is a tuple: <<>> is undefined, <<v>> is v. *)
(* An operation that can throw returns [threw |-> TRUE, message |-> m] or  *)
(* [threw |-> FALSE, ...].                                                 *)
(***************************************************************************)
EXTENDS Integers, Sequences, FiniteSets, TLC

VARIABLES
    pc,          \* position of run(): "start", "pair", "case", "await", "done", "thrown"
    config,      \* the cli's options: directories, model override, filter, API key
    testPairs,   \* run(): const testPairs
    pairIdx,     \* run(): index of the pair of the for-of loop
    caseIdx,     \* executeTestPair(): index of the test case of the for-of loop
    pairResults, \* executeTestPair(): const results
    results,     \* run(): const results
    pending,     \* the model invocation the runner awaits, <<>> when none
    calls,       \* every invocation made so far (what the model API received)
    outcomes,    \* per finished case: what the case's stages did (history)
    returned,    \* <<>> until run() returns, then <<the returned array>>
    reported,    \* the arrays handed to reporter.report(), in order
    fatal,       \* <<>> until run() rethrows, then <<message>>
    warnings,    \* the console.warn calls so far, in order
    clock,       \* Date.now()
    exitCode,    \* <<>> until the process exits, then <<the exit code>>
    fnIn,        \* argument of the pure function under check
    fnOut        \* <<>> until the function was applied, then <<its result>>

vars == <<pc, config, testPairs, pairIdx, caseIdx, pairResults, results,
          pending, calls, outcomes, returned, reported, fatal, warnings, clock,
          exitCode, fnIn, fnOut>>

runVars == <<pc, config, testPairs, pairIdx, caseIdx, pairResults, results,
             pending, calls, outcomes, returned, reported, fatal, warnings, clock,
             exitCode>>

runTrace == <<pc, config, testPairs, pairIdx, caseIdx, pairResults, results,
              pending, calls, outcomes, returned, reported, fatal, warnings, clock>>

fnVars == <<fnIn, fnOut>>

-----------------------------------------------------------------------------
(* Bounds of the checked input spaces.                                     *)

MaxRespLen == 2

MaxAssertLen == 2

MaxPieces == 2

-----------------------------------------------------------------------------
(* Optional values and text helpers.                                       *)

None == <<>>

Some(v) == <<v>>

IsSome(o) == o # <<>>

RECURSIVE Flatten(_)
Flatten(ss) == IF ss = <<>> THEN <<>> ELSE Head(ss) \o Flatten(Tail(ss))

Range(s) == {s[i] : i \in 1..Len(s)}

\* All sequences over S of length at most n.
SeqUpTo(S, n) == UNION {[1..m -> S] : m \in 0..n}

-----------------------------------------------------------------------------
(* String.prototype.toLowerCase and String.prototype.includes.             *)

LowerOf(c) ==
    CASE c = "A" -> "a"
      [] c = "B" -> "b"
      [] OTHER -> c

toLowerCase(s) == [i \in 1..Len(s) |-> LowerOf(s[i])]

\* s.includes(t): t occurs in s at some offset (the empty text at offset 0).
RECURSIVE IncludesFrom(_, _, _)
IncludesFrom(s, t, p) ==
    IF p + Len(t) - 1 > Len(s) THEN FALSE
    ELSE IF \A j \in 1..Len(t) : s[p + j - 1] = t[j] THEN TRUE
    ELSE IncludesFrom(s, t, p + 1)

includes(s, t) == IncludesFrom(s, t, 1)

-----------------------------------------------------------------------------
(* new RegExp(pattern, 'g'), for the patterns `{{${key}}}` can give over   *)
(* PatternChars.  Outside unicode mode (ECMAScript Annex B) "{" and "}"    *)
(* are pattern characters, except that "{" DecimalDigits "}" after an atom *)
(* is a quantifier (and anywhere else a SyntaxError); "." matches any      *)
(* character; "(" opens a group, which nothing in PatternChars closes.     *)
(* A compiled pattern is a sequence of terms [atom, any, count]: `count`   *)
(* characters, each equal to `atom` or, when `any`, each arbitrary.        *)

PatternChars == {"a", "b", "k", "z", "{", "}", ".", "1", "("}

IsDigit(c) == c = "1"

\* The value of the decimal numeral made of n digits "1".
RECURSIVE Repunit(_)
Repunit(n) == IF n = 0 THEN 0 ELSE 10 * Repunit(n - 1) + 1

\* Number of digits starting at position i of pat.
RECURSIVE DigitRun(_, _)
DigitRun(pat, i) ==
    IF i <= Len(pat) /\ IsDigit(pat[i]) THEN 1 + DigitRun(pat, i + 1) ELSE 0

\* Length of the braced quantifier "{" digits "}" that starts at i, 0 if none.
BracedQuantifierAt(pat, i) ==
    IF i <= Len(pat) /\ pat[i] = "{"
    THEN LET d == DigitRun(pat, i + 1) IN
         IF d > 0 /\ i + d + 1 <= Len(pat) /\ pat[i + d + 1] = "}"
         THEN d + 2 ELSE 0
    ELSE 0

RECURSIVE CompileFrom(_, _, _, _, _)
CompileFrom(pat, i, terms, quantifiable, openGroups) ==
    IF i > Len(pat)
    THEN IF openGroups > 0
         THEN [threw |-> TRUE, message |-> "Invalid regular expression: Unterminated group"]
         ELSE [threw |-> FALSE, terms |-> terms]
    ELSE LET q == BracedQuantifierAt(pat, i) IN
         IF q > 0
         THEN IF quantifiable
              THEN LET n == Len(terms)
                       t == [terms[n] EXCEPT !.count = Repunit(q - 2)]
                   IN CompileFrom(pat, i + q, [terms EXCEPT ![n] = t], FALSE, openGroups)
              ELSE [threw |-> TRUE, message |-> "Invalid regular expression: Nothing to repeat"]
         ELSE IF pat[i] = "("
         THEN CompileFrom(pat, i + 1, terms, FALSE, openGroups + 1)
         ELSE CompileFrom(pat, i + 1,
                          Append(terms, [atom |-> pat[i], any |-> pat[i] = ".", count |-> 1]),
                          TRUE, openGroups)

NewRegExp(pat) == CompileFrom(pat, 1, <<>>, FALSE, 0)

RECURSIVE TermsLength(_)
TermsLength(terms) ==
    IF terms = <<>> THEN 0 ELSE Head(terms).count + TermsLength(Tail(terms))

\* Whether the terms match the text starting at position p.
RECURSIVE MatchesAt(_, _, _)
MatchesAt(text, terms, p) ==
    IF terms = <<>> THEN TRUE
    ELSE LET t == Head(terms) IN
         /\ p + t.count - 1 <= Len(text)
         /\ \A j \in 0..(t.count - 1) : t.any \/ text[p + j] = t.atom
         /\ MatchesAt(text, Tail(terms), p + t.count)

-----------------------------------------------------------------------------
(* String.prototype.replace(regexp, replacement) with the g flag.  In the  *)
(* replacement "$$" stands for "$" and "$&" for the matched text; a "$"    *)
(* before any other character of ValueChars stands for itself (the         *)
(* patterns have no capture group, so "$1" is not a reference).            *)

RECURSIVE GetSubstitution(_, _)
GetSubstitution(matched, replacement) ==
    IF replacement = <<>> THEN <<>>
    ELSE IF Head(replacement) = "$" /\ Len(replacement) >= 2 /\ replacement[2] = "$"
    THEN <<"$">> \o GetSubstitution(matched, Tail(Tail(replacement)))
    ELSE IF Head(replacement) = "$" /\ Len(replacement) >= 2 /\ replacement[2] = "&"
    THEN matched \o GetSubstitution(matched, Tail(Tail(replacement)))
    ELSE <<Head(replacement)>> \o GetSubstitution(matched, Tail(replacement))

RECURSIVE ReplaceFrom(_, _, _, _)
ReplaceFrom(text, terms, replacement, p) ==
    IF p > Len(text) THEN <<>>
    ELSE IF TermsLength(terms) > 0 /\ MatchesAt(text, terms, p)
    THEN LET n == TermsLength(terms) IN
         GetSubstitution(SubSeq(text, p, p + n - 1), replacement)
             \o ReplaceFrom(text, terms, replacement, p + n)
    ELSE <<text[p]>> \o ReplaceFrom(text, terms, replacement, p + 1)

replaceAllMatches(text, terms, replacement) == ReplaceFrom(text, terms, replacement, 1)

-----------------------------------------------------------------------------
(* processed.match(/\{\{[^}]+\}\}/g): the texts "{{" x "}}" with x a       *)
(* non-empty run of characters other than "}", leftmost first.             *)

\* Position of the first "}" at or after p, Len(text) + 1 if none.
RECURSIVE FirstCloseFrom(_, _)
FirstCloseFrom(text, p) ==
    IF p > Len(text) \/ text[p] = "}" THEN p ELSE FirstCloseFrom(text, p + 1)

\* Length of the placeholder that starts at p, 0 if none does.
PlaceholderAt(text, p) ==
    IF p + 1 <= Len(text) /\ text[p] = "{" /\ text[p + 1] = "{"
    THEN LET q == FirstCloseFrom(text, p + 2) IN
         IF q >= p + 3 /\ q + 1 <= Len(text) /\ text[q + 1] = "}"
         THEN q + 2 - p ELSE 0
    ELSE 0

RECURSIVE MatchPlaceholdersFrom(_, _)
MatchPlaceholdersFrom(text, p) ==
    IF p > Len(text) THEN <<>>
    ELSE LET n == PlaceholderAt(text, p) IN
         IF n > 0
         THEN <<SubSeq(text, p, p + n - 1)>> \o MatchPlaceholdersFrom(text, p + n)
         ELSE MatchPlaceholdersFrom(text, p + 1)

\* The matches; the empty sequence stands for match()'s null.
matchPlaceholders(text) == MatchPlaceholdersFrom(text, 1)

-----------------------------------------------------------------------------
(* String(value) for the scalar values of a test case's input.             *)

String(value) ==
    CASE value.type = "string" -> value.chars
      [] value.type = "boolean" ->
            IF value.bool THEN <<"t", "r", "u", "e">> ELSE <<"f", "a", "l", "s", "e">>

Str(chars) == [type |-> "string", chars |-> chars]

Bool(b) == [type |-> "boolean", bool |-> b]

-----------------------------------------------------------------------------
(* PromptRunner.processTemplate.  `variables` is optional (a test case     *)
(* without input gives undefined); its entries are in Object.entries       *)
(* order.  The result carries the warning's placeholders in `unsubstituted`*)
(* (console.warn is called when that list is not empty).                   *)

Placeholder(key) == <<"{", "{">> \o key \o <<"}", "}">>

RECURSIVE SubstituteEntries(_, _)
SubstituteEntries(processed, entries) ==
    IF entries = <<>> THEN [threw |-> FALSE, text |-> processed]
    ELSE LET re == NewRegExp(Placeholder(Head(entries).key)) IN
         IF re.threw THEN re
         ELSE SubstituteEntries(
                  replaceAllMatches(processed, re.terms, String(Head(entries).value)),
                  Tail(entries))

processTemplate(template, variables) ==
    IF ~IsSome(variables)
    THEN [threw |-> TRUE, message |-> "Cannot convert undefined or null to object"]
    ELSE LET r == SubstituteEntries(template, variables[1]) IN
         IF r.threw THEN r
         ELSE [threw |-> FALSE, text |-> r.text,
               unsubstituted |-> matchPlaceholders(r.text)]

-----------------------------------------------------------------------------
(* PromptRunner.runAssertions and PromptRunner.allAssertionsPassed.        *)

\* Mutant of ShouldContainResult: the response is not lower-cased.
ShouldContainResultCaseSensitive(response, assertion) ==
    LET found == includes(response, toLowerCase(assertion)) IN
    [assertion |-> assertion, passed |-> found, found_in_response |-> found]

ShouldContainResult(response, assertion) ==
    LET found == includes(toLowerCase(response), toLowerCase(assertion)) IN
    [assertion |-> assertion, passed |-> found, found_in_response |-> found]

ShouldNotContainResult(response, assertion) ==
    LET found == includes(toLowerCase(response), toLowerCase(assertion)) IN
    [assertion |-> assertion, passed |-> ~found, found_in_response |-> found]

\* Mutant of ShouldContainLoop: an assertion string met before is skipped.
RECURSIVE ShouldContainLoopDedup(_, _)
ShouldContainLoopDedup(response, list) ==
    IF list = <<>> THEN <<>>
    ELSE LET rest == ShouldContainLoopDedup(response, Tail(list)) IN
         IF Head(list) \in Range(Tail(list)) THEN rest
         ELSE <<ShouldContainResult(response, Head(list))>> \o rest

\* The for-of loop pushing one outcome per assertion, in order.
RECURSIVE ShouldContainLoop(_, _)
ShouldContainLoop(response, list) ==
    IF list = <<>> THEN <<>>
    ELSE <<ShouldContainResult(response, Head(list))>>
             \o ShouldContainLoop(response, Tail(list))

RECURSIVE ShouldNotContainLoop(_, _)
ShouldNotContainLoop(response, list) ==
    IF list = <<>> THEN <<>>
    ELSE <<ShouldNotContainResult(response, Head(list))>>
             \o ShouldNotContainLoop(response, Tail(list))

runAssertions(response, assertions) ==
    IF ~IsSome(assertions)
    THEN [threw |-> TRUE,
          message |-> "Cannot read properties of undefined (reading 'should_contain')"]
    ELSE LET a == assertions[1] IN
         [threw |-> FALSE,
          should_contain |->
              IF IsSome(a.should_contain)
              THEN ShouldContainLoop(response, a.should_contain[1]) ELSE <<>>,
          should_not_contain |->
              IF IsSome(a.should_not_contain)
              THEN ShouldNotContainLoop(response, a.should_not_contain[1]) ELSE <<>>]

\* Mutant of allAssertionsPassed: the should_not_contain outcomes are left out.
allAssertionsPassedContainOnly(assertionResults) ==
    \A i \in 1..Len(assertionResults.should_contain) :
        assertionResults.should_contain[i].passed

allAssertionsPassed(assertionResults) ==
    LET allShouldContainPassed ==
            \A i \in 1..Len(assertionResults.should_contain) :
                assertionResults.should_contain[i].passed
        allShouldNotContainPassed ==
            \A i \in 1..Len(assertionResults.should_not_contain) :
                assertionResults.should_not_contain[i].passed
    IN allShouldContainPassed /\ allShouldNotContainPassed

-----------------------------------------------------------------------------
(* Specification of processTemplate alone: one template and one variable   *)
(* map are drawn, then the function is applied.                            *)

IdleRun ==
    /\ pc = "idle"
    /\ config = <<>>
    /\ testPairs = <<>>
    /\ pairIdx = 0
    /\ caseIdx = 0
    /\ pairResults = <<>>
    /\ results = <<>>
    /\ pending = <<>>
    /\ calls = <<>>
    /\ outcomes = <<>>
    /\ returned = <<>>
    /\ reported = <<>>
    /\ fatal = <<>>
    /\ warnings = <<>>
    /\ clock = 0
    /\ exitCode = <<>>

ValueChars == {"a", "b", "k", "{", "}", "$", "&"}

TemplatePieces ==
    { <<"a">>, <<"{", "}">>,
      Placeholder(<<"k">>), Placeholder(<<"b">>),
      Placeholder(<<"1">>), Placeholder(<<".">>) }

Templates == {Flatten(ps) : ps \in SeqUpTo(TemplatePieces, MaxPieces)}

InputKeys == { <<"k">>, <<"b">>, <<"1">>, <<".">>, <<"(">> }

InputValues == { Str(<<"a">>), Str(Placeholder(<<"k">>)), Str(<<"$", "&">>), Bool(TRUE) }

InputEntries == [key : InputKeys, value : InputValues]

\* Object.entries lists integer-like keys first, then the others in
\* insertion order.
IsIndexKey(key) == key # <<>> /\ \A i \in 1..Len(key) : IsDigit(key[i])

EntriesOrderOK(es) ==
    \A i, j \in 1..Len(es) :
        i < j => /\ es[i].key # es[j].key
                 /\ ~(IsIndexKey(es[j].key) /\ ~IsIndexKey(es[i].key))

InputMaps ==
    {<<>>} \cup {<<e>> : e \in InputEntries}
           \cup {es \in {<<e, f>> : e, f \in InputEntries} : EntriesOrderOK(es)}

TemplateInit ==
    /\ IdleRun
    /\ fnOut = <<>>
    /\ \E t \in Templates, v \in {None} \cup {Some(m) : m \in InputMaps} :
           fnIn = [fn |-> "processTemplate", template |-> t, variables |-> v]

ApplyProcessTemplate ==
    /\ fnIn.fn = "processTemplate"
    /\ fnOut = <<>>
    /\ fnOut' = <<processTemplate(fnIn.template, fnIn.variables)>>
    /\ UNCHANGED <<fnIn, runVars>>

TemplateNext == ApplyProcessTemplate

SpecTemplate == TemplateInit /\ [][TemplateNext]_vars

-----------------------------------------------------------------------------
(* Specification of runAssertions alone: a response and an assertion spec  *)
(* are drawn, then the function is applied.                                *)

TextChars == {"a", "A", "b"}

Responses == SeqUpTo(TextChars, MaxRespLen)

AssertionStrings == SeqUpTo(TextChars, MaxAssertLen)

\* The two optional lists of a test case's assertions, three strings at most.
AssertionSpecs ==
    LET one == {<<x>> : x \in AssertionStrings}
        two == {<<x, y>> : x, y \in AssertionStrings}
        three == {<<x, y, x>> : x, y \in AssertionStrings}
        opt(S) == {None} \cup {Some(l) : l \in S}
    IN  [should_contain : opt({<<>>} \cup one \cup two \cup three),
         should_not_contain : opt({<<>>})]
        \cup [should_contain : opt({<<>>}), should_not_contain : opt(one \cup two)]
        \cup [should_contain : opt(one), should_not_contain : opt(one)]

AssertInit ==
    /\ IdleRun
    /\ fnOut = <<>>
    /\ \E r \in Responses, a \in {None} \cup {Some(x) : x \in AssertionSpecs} :
           fnIn = [fn |-> "runAssertions", response |-> r, assertions |-> a]

ApplyRunAssertions ==
    /\ fnIn.fn = "runAssertions"
    /\ fnOut = <<>>
    /\ fnOut' = <<runAssertions(fnIn.response, fnIn.assertions)>>
    /\ UNCHANGED <<fnIn, runVars>>

AssertNext == ApplyRunAssertions

SpecAssert == AssertInit /\ [][AssertNext]_vars

-----------------------------------------------------------------------------
(* JavaScript's || on optional values: undefined, "" and 0 are falsy.      *)

TruthyString(o) == IsSome(o) /\ o[1] # ""

TruthyNumber(o) == IsSome(o) /\ o[1] # 0

\* console.warn(`text: ${about}`): the message and what it interpolates.
Warning(text, about) == [text |-> text, about |-> about]

-----------------------------------------------------------------------------
(* PromptRunner.loadPrompts.  A directory is optional (<<>>: it does not   *)
(* exist) and lists files [name, ext, content]; a file's content is        *)
(* [kind |-> "throws"] when reading or yaml.load throws and otherwise      *)
(* [kind |-> "doc", doc |-> d], d a PromptConfig with optional fields.     *)

IsYaml(file) == file.ext \in {"yaml", "yml"}

RECURSIVE LoadPromptFiles(_, _)
LoadPromptFiles(files, acc) ==
    IF files = <<>> THEN acc
    ELSE LET file == Head(files) IN
         IF file.content.kind = "throws"
         THEN LoadPromptFiles(Tail(files),
                  [acc EXCEPT !.warnings = Append(@, Warning("Failed to load prompt file", file.name))])
         ELSE LET prompt == file.content.doc IN
              IF ~TruthyString(prompt.name) \/ ~TruthyString(prompt.template)
              THEN LoadPromptFiles(Tail(files),
                       [acc EXCEPT !.warnings = Append(@, Warning("Skipping invalid prompt file", file.name))])
              ELSE LoadPromptFiles(Tail(files),
                       [acc EXCEPT !.prompts = Append(@, prompt)])

\* Mutant of loadPrompts: a directory without YAML file gives no prompt
\* instead of an error.
loadPromptsLenient(promptDir) ==
    IF ~IsSome(promptDir)
    THEN [threw |-> TRUE, message |-> "Prompts directory not found"]
    ELSE LoadPromptFiles(SelectSeq(promptDir[1], IsYaml),
                         [threw |-> FALSE, prompts |-> <<>>, warnings |-> <<>>])

loadPrompts(promptDir) ==
    IF ~IsSome(promptDir)
    THEN [threw |-> TRUE, message |-> "Prompts directory not found"]
    ELSE LET files == SelectSeq(promptDir[1], IsYaml) IN
         IF Len(files) = 0
         THEN [threw |-> TRUE, message |-> "No YAML files found"]
         ELSE LoadPromptFiles(files, [threw |-> FALSE, prompts |-> <<>>, warnings |-> <<>>])

-----------------------------------------------------------------------------
(* PromptRunner.loadSamples.  A sample file is [name, ext, stem, content], *)
(* stem                                                                    *)
(* being path.basename(file, '.json').replace('_samples', ''); its content *)
(* is [kind |-> "throws"] when reading or JSON.parse throws,               *)
(* [kind |-> "array", test_cases |-> cases] or                             *)
(* [kind |-> "object", prompt_name |-> optional, test_cases |-> optional]. *)
(* The map is a function from the names set so far.                        *)

IsJson(file) == file.ext = "json"

EmptyMap == [n \in {} |-> <<>>]

MapSet(map, key, value) == [n \in DOMAIN map \cup {key} |-> IF n = key THEN value ELSE map[n]]

RECURSIVE LoadSampleFiles(_, _)
LoadSampleFiles(files, acc) ==
    IF files = <<>> THEN acc
    ELSE LET file == Head(files) IN
         IF file.content.kind = "throws"
         THEN LoadSampleFiles(Tail(files),
                  [acc EXCEPT !.warnings = Append(@, Warning("Failed to load sample file", file.name))])
         ELSE LET samples ==
                      IF file.content.kind = "array"
                      THEN [prompt_name |-> None, test_cases |-> Some(file.content.test_cases)]
                      ELSE [prompt_name |-> file.content.prompt_name,
                            test_cases |-> file.content.test_cases]
                  promptName ==
                      IF TruthyString(samples.prompt_name)
                      THEN samples.prompt_name[1] ELSE file.stem
                  set == MapSet(acc.map, promptName, samples)
              IN \* samplesMap.set comes before samples.test_cases.length is
                 \* read: when that read throws, the entry stays in the map.
                 IF ~IsSome(samples.test_cases)
                 THEN LoadSampleFiles(Tail(files),
                          [acc EXCEPT !.map = set,
                                      !.warnings = Append(@, Warning("Failed to load sample file", file.name))])
                 ELSE LoadSampleFiles(Tail(files), [acc EXCEPT !.map = set])

loadSamples(samplesDir) ==
    IF ~IsSome(samplesDir)
    THEN [threw |-> TRUE, message |-> "Samples directory not found"]
    ELSE LoadSampleFiles(SelectSeq(samplesDir[1], IsJson),
                         [threw |-> FALSE, map |-> EmptyMap, warnings |-> <<>>])

-----------------------------------------------------------------------------
(* PromptRunner.matchPromptsWithSamples.                                   *)

\* Mutant of MatchLoop: a collection without test cases does not match.
RECURSIVE MatchLoopSkipEmpty(_, _, _, _)
MatchLoopSkipEmpty(prompts, samples, filter, acc) ==
    IF prompts = <<>> THEN acc
    ELSE LET prompt == Head(prompts) IN
         IF TruthyString(filter) /\ prompt.name[1] # filter[1]
         THEN MatchLoopSkipEmpty(Tail(prompts), samples, filter, acc)
         ELSE IF /\ prompt.name[1] \in DOMAIN samples
                 /\ samples[prompt.name[1]].test_cases \notin {None, Some(<<>>)}
         THEN MatchLoopSkipEmpty(Tail(prompts), samples, filter,
                  [acc EXCEPT !.pairs =
                       Append(@, [prompt |-> prompt, samples |-> samples[prompt.name[1]]])])
         ELSE MatchLoopSkipEmpty(Tail(prompts), samples, filter,
                  [acc EXCEPT !.warnings = Append(@, Warning("No samples found for prompt", prompt.name[1]))])

RECURSIVE MatchLoop(_, _, _, _)
MatchLoop(prompts, samples, filter, acc) ==
    IF prompts = <<>> THEN acc
    ELSE LET prompt == Head(prompts) IN
         IF TruthyString(filter) /\ prompt.name[1] # filter[1]
         THEN MatchLoop(Tail(prompts), samples, filter, acc)
         ELSE IF prompt.name[1] \in DOMAIN samples
         THEN MatchLoop(Tail(prompts), samples, filter,
                  [acc EXCEPT !.pairs =
                       Append(@, [prompt |-> prompt, samples |-> samples[prompt.name[1]]])])
         ELSE MatchLoop(Tail(prompts), samples, filter,
                  [acc EXCEPT !.warnings = Append(@, Warning("No samples found for prompt", prompt.name[1]))])

matchPromptsWithSamples(prompts, samples, filter) ==
    MatchLoop(prompts, samples, filter, [pairs |-> <<>>, warnings |-> <<>>])

-----------------------------------------------------------------------------
(* LLMClient.executePrompt: the request it sends, the text it returns and  *)
(* the error it throws.  Temperatures are in tenths.                       *)

DefaultTemperature == 1

DefaultMaxTokens == 500

\* Mutant of ChatRequest: an override that is set wins even when empty
\* (?? in place of ||).
ChatRequestStrictOverride(promptText, promptConfig, modelOverride) ==
    [model |-> IF IsSome(modelOverride) THEN modelOverride[1]
               ELSE IF IsSome(promptConfig.model) THEN promptConfig.model[1]
               ELSE "gpt-3.5-turbo",
     content |-> promptText,
     temperature |-> IF TruthyNumber(promptConfig.temperature)
                     THEN promptConfig.temperature[1] ELSE DefaultTemperature,
     max_tokens |-> IF TruthyNumber(promptConfig.max_tokens)
                    THEN promptConfig.max_tokens[1] ELSE DefaultMaxTokens]

ChatRequest(promptText, promptConfig, modelOverride) ==
    [model |-> IF TruthyString(modelOverride) THEN modelOverride[1]
               ELSE IF TruthyString(promptConfig.model) THEN promptConfig.model[1]
               ELSE "gpt-3.5-turbo",
     content |-> promptText,
     temperature |-> IF TruthyNumber(promptConfig.temperature)
                     THEN promptConfig.temperature[1] ELSE DefaultTemperature,
     max_tokens |-> IF TruthyNumber(promptConfig.max_tokens)
                    THEN promptConfig.max_tokens[1] ELSE DefaultMaxTokens]

\* response.choices[0]?.message?.content || ''
ResponseContent(content) == IF IsSome(content) THEN content[1] ELSE <<>>

\* Mutant of ApiErrorMessage: the caught error is rethrown as it came.
ApiErrorMessageRaw(message) == message

\* throw new Error(`OpenAI API error: ${...}`)
ApiErrorMessage(message) == "OpenAI API error: " \o message

-----------------------------------------------------------------------------
(* PromptRunner.executeTestPair: the TestResult of the try block and the   *)
(* TestResult of the catch block.                                          *)

\* Mutant of ModelUsed: the prompt's model wins over the override.
ModelUsedPromptFirst(modelOverride, prompt) ==
    IF TruthyString(prompt.model) THEN prompt.model[1]
    ELSE IF TruthyString(modelOverride) THEN modelOverride[1]
    ELSE "gpt-3.5-turbo"

ModelUsed(modelOverride, prompt) ==
    IF TruthyString(modelOverride) THEN modelOverride[1]
    ELSE IF TruthyString(prompt.model) THEN prompt.model[1]
    ELSE "gpt-3.5-turbo"

SuccessResult(prompt, testCase, modelOverride, response, assertionResults, elapsed) ==
    [prompt_name |-> prompt.name[1],
     test_case_name |-> testCase.name,
     model_used |-> ModelUsed(modelOverride, prompt),
     passed |-> allAssertionsPassed(assertionResults),
     response |-> response,
     assertions_checked |-> [should_contain |-> assertionResults.should_contain,
                             should_not_contain |-> assertionResults.should_not_contain],
     execution_time_ms |-> elapsed]

\* Mutant of ErrorResult: the catch block forgets the error field.
ErrorResultWithoutError(prompt, testCase, modelOverride, message, elapsed) ==
    [prompt_name |-> prompt.name[1],
     test_case_name |-> testCase.name,
     model_used |-> ModelUsed(modelOverride, prompt),
     passed |-> FALSE,
     response |-> <<>>,
     assertions_checked |-> [should_contain |-> <<>>, should_not_contain |-> <<>>],
     execution_time_ms |-> elapsed]

ErrorResult(prompt, testCase, modelOverride, message, elapsed) ==
    [prompt_name |-> prompt.name[1],
     test_case_name |-> testCase.name,
     model_used |-> ModelUsed(modelOverride, prompt),
     passed |-> FALSE,
     response |-> <<>>,
     assertions_checked |-> [should_contain |-> <<>>, should_not_contain |-> <<>>],
     execution_time_ms |-> elapsed,
     error |-> message]

\* results.push(result) in executeTestPair, results.push(...testResults) in run.
PushResult(list, result) == Append(list, result)

\* Mutant of PushAll: a pair's results go in front of the earlier ones.
PushAllFront(list, testResults) == testResults \o list

PushAll(list, testResults) == list \o testResults

\* What the try block does once the model's text is there.
CompleteCase(prompt, testCase, modelOverride, response, elapsed) ==
    LET assertionResults == runAssertions(response, testCase.assertions) IN
    IF assertionResults.threw
    THEN ErrorResult(prompt, testCase, modelOverride, assertionResults.message, elapsed)
    ELSE SuccessResult(prompt, testCase, modelOverride, response, assertionResults, elapsed)

-----------------------------------------------------------------------------
(* The files and the model behaviours a run is checked on.                 *)

Entry(key, value) == [key |-> key, value |-> value]

Assertions(sc, snc) == Some([should_contain |-> sc, should_not_contain |-> snc])

\* Renders fully under TemplateA; one outcome list can fail while the other passes.
Case1 == [name |-> "1", input |-> Some(<<Entry(<<"k">>, Str(<<"b">>))>>),
          assertions |-> Assertions(Some(<< <<"A">> >>), Some(<< <<"b">> >>))]

\* No variable, no assertion list: leaves {{k}} in the text.
Case2 == [name |-> "2", input |-> Some(<<>>), assertions |-> Assertions(None, None)]

\* The key "(" makes new RegExp throw.
Case3 == [name |-> "3", input |-> Some(<<Entry(<<"(">>, Str(<<"a">>))>>),
          assertions |-> Assertions(Some(<<>>), Some(<<>>))]

\* No assertions object: runAssertions throws.
Case4 == [name |-> "4", input |-> Some(<<Entry(<<"k">>, Bool(TRUE))>>), assertions |-> None]

\* Passes on the response "aB".
Case5 == [name |-> "5", input |-> Some(<<Entry(<<"k">>, Str(<<"b">>))>>),
          assertions |-> Assertions(Some(<< <<"a", "b">>, <<"B">> >>), Some(<< <<"b", "a">> >>))]

TemplateA == <<"a">> \o Placeholder(<<"k">>)

\* {{z}} is in no test case's input.
TemplateB == Placeholder(<<"k">>) \o Placeholder(<<"z">>)

PromptDoc(name, template, model, temperature, maxTokens) ==
    [kind |-> "doc",
     doc |-> [name |-> name, template |-> template, model |-> model,
              temperature |-> temperature, max_tokens |-> maxTokens]]

PromptFiles ==
    { [name |-> "A.yaml", ext |-> "yaml",
       content |-> PromptDoc(Some("A"), Some(TemplateA), None, None, None)],
      [name |-> "B.yml", ext |-> "yml",
       content |-> PromptDoc(Some("B"), Some(TemplateB), Some("gpt-4"), Some(0), Some(0))],
      [name |-> "B2.yaml", ext |-> "yaml",
       content |-> PromptDoc(Some("B"), Some(TemplateA), Some(""), Some(7), Some(64))],
      [name |-> "C.yaml", ext |-> "yaml",
       content |-> PromptDoc(Some("C"), None, None, None, None)],
      [name |-> "E.yaml", ext |-> "yaml", content |-> [kind |-> "throws"]],
      [name |-> "README.md", ext |-> "md", content |-> [kind |-> "throws"]] }

SampleFiles ==
    { [name |-> "A.json", ext |-> "json", stem |-> "A",
       content |-> [kind |-> "array", test_cases |-> <<Case1, Case2>>]],
      [name |-> "B.json", ext |-> "json", stem |-> "B",
       content |-> [kind |-> "array", test_cases |-> <<Case3, Case4>>]],
      [name |-> "x.json", ext |-> "json", stem |-> "x",
       content |-> [kind |-> "object", prompt_name |-> Some("B"), test_cases |-> Some(<<Case5, Case1>>)]],
      [name |-> "A_samples.json", ext |-> "json", stem |-> "A",
       content |-> [kind |-> "object", prompt_name |-> None, test_cases |-> Some(<<>>)]],
      [name |-> "B_samples.json", ext |-> "json", stem |-> "B",
       content |-> [kind |-> "object", prompt_name |-> None, test_cases |-> None]],
      [name |-> "D.json", ext |-> "json", stem |-> "D", content |-> [kind |-> "throws"]] }

\* A directory that does not exist, or one listing at most two files.
Directories(pool) ==
    {None} \cup {Some(<<>>)} \cup {Some(<<f>>) : f \in pool}
           \cup {Some(<<fg[1], fg[2]>>) : fg \in {x \in pool \X pool : x[1] # x[2]}}

\* What chat.completions.create can do, with the time it takes.
ApiReplies ==
    { [content |-> Some(<<"a", "B">>), ms |-> 3],
      [content |-> None, ms |-> 1] }

ApiFailures ==
    { [message |-> "rate limit exceeded", ms |-> 2],
      [message |-> "timeout", ms |-> 0] }

-----------------------------------------------------------------------------
(* PromptRunner.run.                                                       *)

Init ==
    /\ pc = "start"
    /\ \E pd \in Directories(PromptFiles), sd \in Directories(SampleFiles),
          mo \in {None, Some("gpt-4o"), Some("")}, f \in {None, Some("B")},
          key \in {None, Some("sk")} :
           config = [promptDir |-> pd, samplesDir |-> sd, modelOverride |-> mo,
                     filter |-> f, apiKey |-> key]
    /\ testPairs = <<>>
    /\ pairIdx = 0
    /\ caseIdx = 0
    /\ pairResults = <<>>
    /\ results = <<>>
    /\ pending = <<>>
    /\ calls = <<>>
    /\ outcomes = <<>>
    /\ returned = <<>>
    /\ reported = <<>>
    /\ fatal = <<>>
    /\ warnings = <<>>
    /\ clock = 0
    /\ exitCode = <<>>
    /\ fnIn = <<>>
    /\ fnOut = <<>>

\* Mutant of Discover: finding no pair is a fatal error.
DiscoverNoPairFatal ==
    /\ pc = "start"
    /\ TruthyString(config.apiKey)
    /\ LET p == loadPrompts(config.promptDir)
           s == loadSamples(config.samplesDir)
       IN IF p.threw
          THEN /\ pc' = "thrown"
               /\ fatal' = <<p.message>>
               /\ UNCHANGED <<testPairs, pairIdx, returned, warnings>>
          ELSE IF s.threw
          THEN /\ pc' = "thrown"
               /\ fatal' = <<s.message>>
               /\ warnings' = warnings \o p.warnings
               /\ UNCHANGED <<testPairs, pairIdx, returned>>
          ELSE LET m == matchPromptsWithSamples(p.prompts, s.map, config.filter) IN
               /\ testPairs' = m.pairs
               /\ warnings' = warnings \o p.warnings \o s.warnings \o m.warnings
               /\ returned' = returned
               /\ IF Len(m.pairs) = 0
                  THEN /\ pc' = "thrown"
                       /\ fatal' = <<"No matching prompt-sample pairs found">>
                       /\ pairIdx' = pairIdx
                  ELSE pc' = "pair" /\ fatal' = fatal /\ pairIdx' = 1
    /\ UNCHANGED <<config, caseIdx, pairResults, results, pending, calls, outcomes,
                   reported, clock, fnVars, exitCode>>

\* run() up to the loop over the pairs: load, match, give up on no pair.
Discover ==
    /\ pc = "start"
    /\ TruthyString(config.apiKey)
    /\ LET p == loadPrompts(config.promptDir)
           s == loadSamples(config.samplesDir)
       IN IF p.threw
          THEN /\ pc' = "thrown"
               /\ fatal' = <<p.message>>
               /\ UNCHANGED <<testPairs, pairIdx, returned, warnings>>
          ELSE IF s.threw
          THEN /\ pc' = "thrown"
               /\ fatal' = <<s.message>>
               /\ warnings' = warnings \o p.warnings
               /\ UNCHANGED <<testPairs, pairIdx, returned>>
          ELSE LET m == matchPromptsWithSamples(p.prompts, s.map, config.filter) IN
               /\ testPairs' = m.pairs
               /\ warnings' = warnings \o p.warnings \o s.warnings \o m.warnings
               /\ fatal' = fatal
               /\ IF Len(m.pairs) = 0
                  THEN pc' = "done" /\ returned' = << <<>> >> /\ pairIdx' = pairIdx
                  ELSE pc' = "pair" /\ returned' = returned /\ pairIdx' = 1
    /\ UNCHANGED <<config, caseIdx, pairResults, results, pending, calls, outcomes,
                   reported, clock, fnVars, exitCode>>

\* executeTestPair() is entered for the next pair.
BeginPair ==
    /\ pc = "pair"
    /\ pairIdx <= Len(testPairs)
    /\ IF IsSome(testPairs[pairIdx].samples.test_cases)
       THEN /\ pc' = "case"
            /\ caseIdx' = 1
            /\ pairResults' = <<>>
            /\ fatal' = fatal
       ELSE \* for (const testCase of undefined) throws outside the try block
            /\ pc' = "thrown"
            /\ fatal' = <<"samples.test_cases is not iterable">>
            /\ UNCHANGED <<caseIdx, pairResults>>
    /\ UNCHANGED <<config, testPairs, pairIdx, results, pending, calls, outcomes,
                   returned, reported, warnings, clock, fnVars, exitCode>>

CurrentPrompt == testPairs[pairIdx].prompt

CurrentCases == testPairs[pairIdx].samples.test_cases[1]

\* Mutant of BeginCase: a text with unsubstituted placeholders fails the
\* case instead of being sent.
BeginCaseStrict ==
    /\ pc = "case"
    /\ caseIdx <= Len(CurrentCases)
    /\ LET testCase == CurrentCases[caseIdx]
           processed == processTemplate(CurrentPrompt.template[1], testCase.input)
       IN IF processed.threw \/ processed.unsubstituted # <<>>
          THEN /\ pairResults' = PushResult(pairResults,
                     ErrorResult(CurrentPrompt, testCase, config.modelOverride,
                                 "Unsubstituted placeholders found", 0))
               /\ outcomes' = Append(outcomes, [pair |-> pairIdx, case |-> caseIdx,
                                                 threw |-> "template"])
               /\ caseIdx' = caseIdx + 1
               /\ UNCHANGED <<pc, pending, calls, warnings>>
          ELSE LET request == ChatRequest(processed.text, CurrentPrompt, config.modelOverride) IN
               /\ pc' = "await"
               /\ pending' = <<[request |-> request, startTime |-> clock]>>
               /\ calls' = Append(calls, [pair |-> pairIdx, case |-> caseIdx,
                                           request |-> request])
               /\ UNCHANGED <<pairResults, outcomes, caseIdx, warnings>>
    /\ UNCHANGED <<config, testPairs, pairIdx, results, returned, reported, fatal,
                   clock, fnVars, exitCode>>

\* Mutant of BeginCase: the call is not awaited; the loop goes on to the
\* next test case while it is outstanding.
BeginCaseWithoutAwait ==
    /\ pc = "case"
    /\ caseIdx <= Len(CurrentCases)
    /\ LET testCase == CurrentCases[caseIdx]
           processed == processTemplate(CurrentPrompt.template[1], testCase.input)
       IN IF processed.threw
          THEN /\ pairResults' = PushResult(pairResults,
                     ErrorResult(CurrentPrompt, testCase, config.modelOverride,
                                 processed.message, 0))
               /\ outcomes' = Append(outcomes, [pair |-> pairIdx, case |-> caseIdx,
                                                 threw |-> "template"])
               /\ UNCHANGED <<pending, calls, warnings>>
          ELSE LET request == ChatRequest(processed.text, CurrentPrompt, config.modelOverride) IN
               /\ pending' = <<[request |-> request, startTime |-> clock]>>
               /\ calls' = Append(calls, [pair |-> pairIdx, case |-> caseIdx,
                                           request |-> request])
               /\ UNCHANGED <<pairResults, outcomes, warnings>>
    /\ caseIdx' = caseIdx + 1
    /\ UNCHANGED <<pc, config, testPairs, pairIdx, results, returned, reported, fatal,
                   clock, fnVars, exitCode>>

\* A test case starts: the template is rendered and the model is called.
BeginCase ==
    /\ pc = "case"
    /\ caseIdx <= Len(CurrentCases)
    /\ LET testCase == CurrentCases[caseIdx]
           processed == processTemplate(CurrentPrompt.template[1], testCase.input)
       IN IF processed.threw
          THEN /\ pairResults' = PushResult(pairResults,
                     ErrorResult(CurrentPrompt, testCase, config.modelOverride,
                                 processed.message, 0))
               /\ outcomes' = Append(outcomes, [pair |-> pairIdx, case |-> caseIdx,
                                                 threw |-> "template"])
               /\ caseIdx' = caseIdx + 1
               /\ UNCHANGED <<pc, pending, calls, warnings>>
          ELSE LET request == ChatRequest(processed.text, CurrentPrompt, config.modelOverride) IN
               /\ pc' = "await"
               /\ pending' = <<[request |-> request, startTime |-> clock]>>
               /\ calls' = Append(calls, [pair |-> pairIdx, case |-> caseIdx,
                                           request |-> request])
               /\ warnings' = IF processed.unsubstituted # <<>>
                              THEN Append(warnings, Warning("Unsubstituted placeholders found",
                                                        processed.unsubstituted))
                              ELSE warnings
               /\ UNCHANGED <<pairResults, outcomes, caseIdx>>
    /\ UNCHANGED <<config, testPairs, pairIdx, results, returned, reported, fatal,
                   clock, fnVars, exitCode>>

\* The model answers; the assertions are run and the result is pushed.
ModelReplies ==
    /\ pc = "await"
    /\ \E reply \in ApiReplies :
           LET testCase == CurrentCases[caseIdx]
               response == ResponseContent(reply.content)
               result == CompleteCase(CurrentPrompt, testCase, config.modelOverride,
                                      response, clock + reply.ms - pending[1].startTime)
           IN /\ clock' = clock + reply.ms
              /\ pairResults' = PushResult(pairResults, result)
              /\ outcomes' = Append(outcomes,
                     [pair |-> pairIdx, case |-> caseIdx,
                      threw |-> IF runAssertions(response, testCase.assertions).threw
                                THEN "assertions" ELSE "nothing"])
    /\ pc' = "case"
    /\ pending' = <<>>
    /\ caseIdx' = caseIdx + 1
    /\ UNCHANGED <<config, testPairs, pairIdx, results, calls, returned, reported,
                   fatal, warnings, fnVars, exitCode>>

\* Mutant of ModelFails: the failure is not caught and run() rethrows it.
ModelFailsAborts ==
    /\ pc = "await"
    /\ \E failure \in ApiFailures :
           /\ clock' = clock + failure.ms
           /\ fatal' = <<ApiErrorMessage(failure.message)>>
    /\ pc' = "thrown"
    /\ pending' = <<>>
    /\ UNCHANGED <<config, testPairs, pairIdx, caseIdx, pairResults, results, calls,
                   outcomes, returned, reported, warnings, fnVars, exitCode>>

\* Mutant of ModelFails: a failed call is tried again.
ModelFailsRetries ==
    /\ pc = "await"
    /\ \E failure \in ApiFailures : clock' = clock + failure.ms
    /\ pc' = "case"
    /\ pending' = <<>>
    /\ UNCHANGED <<config, testPairs, pairIdx, caseIdx, pairResults, results, calls,
                   outcomes, returned, reported, fatal, warnings, fnVars, exitCode>>

\* The model call fails; executePrompt rethrows and the catch block pushes.
ModelFails ==
    /\ pc = "await"
    /\ \E failure \in ApiFailures :
           LET testCase == CurrentCases[caseIdx] IN
           /\ clock' = clock + failure.ms
           /\ pairResults' = PushResult(pairResults,
                  ErrorResult(CurrentPrompt, testCase, config.modelOverride,
                              ApiErrorMessage(failure.message),
                              clock + failure.ms - pending[1].startTime))
           /\ outcomes' = Append(outcomes,
                  [pair |-> pairIdx, case |-> caseIdx, threw |-> "invocation",
                   message |-> failure.message])
    /\ pc' = "case"
    /\ pending' = <<>>
    /\ caseIdx' = caseIdx + 1
    /\ UNCHANGED <<config, testPairs, pairIdx, results, calls, returned, reported,
                   fatal, warnings, fnVars, exitCode>>

\* executeTestPair() returns and run() pushes its results.
EndPair ==
    /\ pc = "case"
    /\ caseIdx > Len(CurrentCases)
    /\ results' = PushAll(results, pairResults)
    /\ pairResults' = <<>>
    /\ pairIdx' = pairIdx + 1
    /\ caseIdx' = 0
    /\ pc' = "pair"
    /\ UNCHANGED <<config, testPairs, pending, calls, outcomes, returned, reported,
                   fatal, warnings, clock, fnVars, exitCode>>

\* Mutant of Report: nothing is reported when there is no result.
ReportSkippedWhenEmpty ==
    /\ pc = "pair"
    /\ pairIdx > Len(testPairs)
    /\ reported' = IF results = <<>> THEN reported ELSE Append(reported, results)
    /\ returned' = <<results>>
    /\ pc' = "done"
    /\ UNCHANGED <<config, testPairs, pairIdx, caseIdx, pairResults, results, pending,
                   calls, outcomes, fatal, warnings, clock, fnVars, exitCode>>

\* After the last pair: report, then return the results.
Report ==
    /\ pc = "pair"
    /\ pairIdx > Len(testPairs)
    /\ reported' = Append(reported, results)
    /\ returned' = <<results>>
    /\ pc' = "done"
    /\ UNCHANGED <<config, testPairs, pairIdx, caseIdx, pairResults, results, pending,
                   calls, outcomes, fatal, warnings, clock, fnVars, exitCode>>

\* cli: without an API key the process exits before a runner is made.
ExitWithoutKey ==
    /\ pc = "start"
    /\ ~TruthyString(config.apiKey)
    /\ exitCode = <<>>
    /\ exitCode' = <<1>>
    /\ UNCHANGED <<runTrace, fnVars>>

\* Mutant of Exit: the exit code does not look at the results.
ExitIgnoringFailures ==
    /\ pc \in {"done", "thrown"}
    /\ exitCode = <<>>
    /\ exitCode' = <<IF pc = "thrown" THEN 1 ELSE 0>>
    /\ UNCHANGED <<runTrace, fnVars>>

\* cli: run() returned (results.some(r => !r.passed)) or threw (catch).
Exit ==
    /\ pc \in {"done", "thrown"}
    /\ exitCode = <<>>
    /\ exitCode' = <<IF pc = "thrown" THEN 1
                     ELSE IF \E i \in 1..Len(returned[1]) : ~returned[1][i].passed
                          THEN 1 ELSE 0>>
    /\ UNCHANGED <<runTrace, fnVars>>

Next ==
    \/ Discover
    \/ BeginPair
    \/ BeginCase
    \/ ModelReplies
    \/ ModelFails
    \/ EndPair
    \/ Report
    \/ ExitWithoutKey
    \/ Exit

Spec == Init /\ [][Next]_vars

-----------------------------------------------------------------------------
(* Properties of the run.                                                  *)

\* Every TestResult pushed so far, in push order; outcomes[i] tells what
\* the i-th of them went through.
AllResults == results \o pairResults

CasesOf(pair) == pair.samples.test_cases[1]

PairsIterable == \A i \in 1..Len(testPairs) : IsSome(testPairs[i].samples.test_cases)

Labels(rs) == [i \in 1..Len(rs) |-> <<rs[i].prompt_name, rs[i].test_case_name>>]

PairLabels(pair) ==
    [j \in 1..Len(CasesOf(pair)) |-> <<pair.prompt.name[1], CasesOf(pair)[j].name>>]

ExpectedLabels == Flatten([i \in 1..Len(testPairs) |-> PairLabels(testPairs[i])])

RECURSIVE TotalCases(_)
TotalCases(pairs) ==
    IF pairs = <<>> THEN 0 ELSE Len(CasesOf(Head(pairs))) + TotalCases(Tail(pairs))

HasError(r) == "error" \in DOMAIN r

\* C1: the sequence run() returns lists the results pair by pair in pair
\* order and, within a pair, in the collection's test-case order, whatever
\* invocations failed.
C1_ResultOrder ==
    returned # <<>> => Labels(returned[1]) = ExpectedLabels

\* Two pairs of two cases each were run, with failures and successes mixed.
C1_Witness ==
    /\ returned # <<>>
    /\ Len(testPairs) = 2
    /\ Len(returned[1]) = 4
    /\ testPairs[1].prompt.name # testPairs[2].prompt.name
    /\ HasError(returned[1][1]) /\ ~HasError(returned[1][2])
    /\ HasError(returned[1][4])

\* C2: a failed model invocation never aborts the run: over matched pairs
\* that each hold a test-case list, run() does not throw, every failed
\* invocation has left its result, and the returned sequence has one
\* result per test case of every pair.
C2_FailureDoesNotAbort ==
    (testPairs # <<>> /\ PairsIterable) =>
        /\ pc # "thrown"
        /\ Len(AllResults) = Len(outcomes)
        /\ pc = "done" => /\ returned # <<>>
                          /\ Len(returned[1]) = TotalCases(testPairs)

\* The run returned although invocations failed.
C2_Witness ==
    /\ pc = "done"
    /\ returned # <<>>
    /\ Len(returned[1]) >= 3
    /\ \E i, j \in 1..Len(outcomes) :
           i # j /\ outcomes[i].threw = "invocation" /\ outcomes[j].threw = "invocation"

\* C3: a TestResult has the error field exactly when template processing,
\* the invocation or the assertion evaluation threw for its case, and a
\* result with error has passed = false, response = "" and no outcome.
C3_ErrorIffThrew ==
    /\ Len(AllResults) = Len(outcomes)
    /\ \A i \in 1..Len(AllResults) :
           LET r == AllResults[i] IN
           /\ HasError(r) <=> outcomes[i].threw \in {"template", "invocation", "assertions"}
           /\ HasError(r) => /\ r.passed = FALSE
                             /\ r.response = <<>>
                             /\ r.assertions_checked.should_contain = <<>>
                             /\ r.assertions_checked.should_not_contain = <<>>

\* One run met all three kinds of throw and a case that did not throw.
C3_Witness ==
    /\ \A k \in {"template", "invocation", "assertions", "nothing"} :
           \E i \in 1..Len(outcomes) : outcomes[i].threw = k
    /\ \E i \in 1..Len(AllResults) : HasError(AllResults[i])
    /\ \E i \in 1..Len(AllResults) : ~HasError(AllResults[i])

\* C4, as claimed: when the model call fails with message m, the case's
\* TestResult has error = m.
C4_ErrorIsTheMessage ==
    \A i \in 1..Len(outcomes) :
        (i <= Len(AllResults) /\ outcomes[i].threw = "invocation")
            => AllResults[i].error = outcomes[i].message

\* C4, amended: when the model call fails with message m, the case's
\* TestResult has error = "OpenAI API error: " followed by m.
C4_ErrorIsPrefixedMessage ==
    \A i \in 1..Len(outcomes) :
        (i <= Len(AllResults) /\ outcomes[i].threw = "invocation")
            => /\ HasError(AllResults[i])
               /\ AllResults[i].error = "OpenAI API error: " \o outcomes[i].message

\* A model call failed with "rate limit exceeded" and its result is there.
C4_Witness ==
    \E i \in 1..Len(outcomes) :
        /\ i <= Len(AllResults)
        /\ outcomes[i].threw = "invocation"
        /\ outcomes[i].message = "rate limit exceeded"
        /\ HasError(AllResults[i])

OutcomeFlags(r) ==
    {r.assertions_checked.should_contain[i].passed :
         i \in 1..Len(r.assertions_checked.should_contain)}
    \cup {r.assertions_checked.should_not_contain[i].passed :
         i \in 1..Len(r.assertions_checked.should_not_contain)}

CaseOfOutcome(o) == CasesOf(testPairs[o.pair])[o.case]

NoAssertionListed(testCase) ==
    /\ IsSome(testCase.assertions)
    /\ \A l \in {testCase.assertions[1].should_contain,
                 testCase.assertions[1].should_not_contain} : l \in {None, Some(<<>>)}

\* C6: for a case that did not throw, passed is the conjunction of the
\* passed flags of all its outcomes, of both lists; with both lists empty
\* or missing it is true whatever the response.
C6_PassedIsConjunction ==
    \A i \in 1..Len(outcomes) :
        (i <= Len(AllResults) /\ outcomes[i].threw = "nothing") =>
            LET r == AllResults[i] IN
            /\ r.passed <=> (FALSE \notin OutcomeFlags(r))
            /\ NoAssertionListed(CaseOfOutcome(outcomes[i])) => r.passed

\* Passed results with and without outcomes (one on the empty response),
\* and a failed result.
C6_Witness ==
    /\ \E i \in 1..Len(AllResults) :
           /\ outcomes[i].threw = "nothing"
           /\ NoAssertionListed(CaseOfOutcome(outcomes[i]))
           /\ AllResults[i].response = <<>>
           /\ AllResults[i].passed
    /\ \E i \in 1..Len(AllResults) :
           /\ outcomes[i].threw = "nothing"
           /\ OutcomeFlags(AllResults[i]) = {TRUE}
           /\ AllResults[i].passed
    /\ \E i \in 1..Len(AllResults) :
           /\ outcomes[i].threw = "nothing"
           /\ OutcomeFlags(AllResults[i]) = {TRUE, FALSE}
           /\ ~AllResults[i].passed

\* The test cases begun so far, as <<pair, case>>.
BegunCases ==
    UNION { {<<p, c>> : c \in {k \in 1..Len(CasesOf(testPairs[p])) :
                                  \/ p < pairIdx
                                  \/ p = pairIdx /\ k < caseIdx
                                  \/ p = pairIdx /\ k = caseIdx /\ pc = "await"}} :
            p \in {q \in 1..Len(testPairs) : IsSome(testPairs[q].samples.test_cases)} }

\* The template names {{z}} and the input, all of whose keys are "k", does
\* not: the rendered text keeps the placeholder {{z}}.
KeepsPlaceholder(pair, testCase) ==
    /\ includes(pair.prompt.template[1], Placeholder(<<"z">>))
    /\ IsSome(testCase.input)
    /\ \A i \in 1..Len(testCase.input[1]) : testCase.input[1][i].key = <<"k">>

\* C10: a test case whose rendered text keeps an unresolved placeholder is
\* neither failed nor skipped for it: the model is called with the text,
\* placeholder included, and when the call and the assertions do not throw
\* the result has no error and passed is the conjunction of its outcomes.
C10_PlaceholdersDoNotFail ==
    \A b \in BegunCases :
        LET pair == testPairs[b[1]]
            testCase == CasesOf(pair)[b[2]]
        IN KeepsPlaceholder(pair, testCase) =>
           /\ \E c \in 1..Len(calls) :
                  /\ calls[c].pair = b[1] /\ calls[c].case = b[2]
                  /\ includes(calls[c].request.content, Placeholder(<<"z">>))
                  /\ matchPlaceholders(calls[c].request.content) # <<>>
           /\ \A i \in 1..Len(outcomes) :
                  (i <= Len(AllResults) /\ outcomes[i].pair = b[1] /\ outcomes[i].case = b[2]) =>
                      /\ outcomes[i].threw # "template"
                      /\ outcomes[i].threw = "nothing" =>
                             /\ ~HasError(AllResults[i])
                             /\ AllResults[i].passed <=> (FALSE \notin OutcomeFlags(AllResults[i]))

\* A case was sent with {{z}} left in its text and passed on its assertions,
\* after a warning.
C10_Witness ==
    \E i \in 1..Len(outcomes) :
        /\ i <= Len(AllResults)
        /\ KeepsPlaceholder(testPairs[outcomes[i].pair], CaseOfOutcome(outcomes[i]))
        /\ AllResults[i].passed
        /\ OutcomeFlags(AllResults[i]) = {TRUE}
        /\ \E w \in Range(warnings) : w.text = "Unsubstituted placeholders found"
        /\ \E c \in 1..Len(calls) :
               /\ calls[c].pair = outcomes[i].pair /\ calls[c].case = outcomes[i].case
               /\ includes(calls[c].request.content, Placeholder(<<"z">>))

-----------------------------------------------------------------------------
(* Properties of runAssertions (under SpecAssert).                         *)

\* Lower-cased a occurs in lower-cased r: r = x \o a \o y up to case.
OccursIgnoringCase(a, r) ==
    \E n \in 0..Len(r) :
        /\ n + Len(a) <= Len(r)
        /\ \A j \in 1..Len(a) : LowerOf(r[n + j]) = LowerOf(a[j])

SourceList(o) == IF IsSome(o) THEN o[1] ELSE <<>>

AssertionsApplied ==
    /\ fnIn # <<>>
    /\ fnIn.fn = "runAssertions"
    /\ fnOut # <<>>
    /\ ~fnOut[1].threw

\* C5: found_in_response is true exactly when the lower-cased assertion is
\* a substring of the lower-cased response; a should_contain outcome has
\* passed = found_in_response, a should_not_contain outcome the negation.
C5_CaseInsensitiveContainment ==
    AssertionsApplied =>
        LET sc == SourceList(fnIn.assertions[1].should_contain)
            snc == SourceList(fnIn.assertions[1].should_not_contain)
            out == fnOut[1]
        IN /\ Len(out.should_contain) = Len(sc)
           /\ Len(out.should_not_contain) = Len(snc)
           /\ \A i \in 1..Len(sc) :
                  /\ out.should_contain[i].found_in_response
                         <=> OccursIgnoringCase(sc[i], fnIn.response)
                  /\ out.should_contain[i].passed = out.should_contain[i].found_in_response
           /\ \A i \in 1..Len(snc) :
                  /\ out.should_not_contain[i].found_in_response
                         <=> OccursIgnoringCase(snc[i], fnIn.response)
                  /\ out.should_not_contain[i].passed
                         = ~out.should_not_contain[i].found_in_response

\* An assertion found only because case is ignored, in both lists.
C5_Witness ==
    /\ AssertionsApplied
    /\ fnIn.response = <<"A", "b">>
    /\ fnIn.assertions[1].should_contain = Some(<< <<"a", "b">> >>)
    /\ fnIn.assertions[1].should_not_contain = Some(<< <<"a">> >>)
    /\ fnOut[1].should_contain[1].passed
    /\ ~fnOut[1].should_not_contain[1].passed

\* C7: each outcome list has the length of its source list and its i-th
\* outcome carries the i-th source string; duplicates stay.
C7_OutcomesMirrorSource ==
    AssertionsApplied =>
        LET sc == SourceList(fnIn.assertions[1].should_contain)
            snc == SourceList(fnIn.assertions[1].should_not_contain)
            out == fnOut[1]
        IN /\ Len(out.should_contain) = Len(sc)
           /\ Len(out.should_not_contain) = Len(snc)
           /\ \A i \in 1..Len(sc) : out.should_contain[i].assertion = sc[i]
           /\ \A i \in 1..Len(snc) : out.should_not_contain[i].assertion = snc[i]

\* A list x, y, x with x # y gave three outcomes, the first and the third alike.
C7_Witness ==
    /\ AssertionsApplied
    /\ Len(SourceList(fnIn.assertions[1].should_contain)) = 3
    /\ Len(fnOut[1].should_contain) = 3
    /\ fnOut[1].should_contain[1] = fnOut[1].should_contain[3]
    /\ fnOut[1].should_contain[1].assertion # fnOut[1].should_contain[2].assertion

-----------------------------------------------------------------------------
(* Properties of processTemplate (under SpecTemplate).                     *)

\* Every occurrence of the text `token` replaced by `value`, nothing else
\* touched: the substitution the claims describe.
RECURSIVE LiteralReplaceFrom(_, _, _, _)
LiteralReplaceFrom(text, token, value, p) ==
    IF p > Len(text) THEN <<>>
    ELSE IF p + Len(token) - 1 <= Len(text) /\ SubSeq(text, p, p + Len(token) - 1) = token
    THEN value \o LiteralReplaceFrom(text, token, value, p + Len(token))
    ELSE <<text[p]>> \o LiteralReplaceFrom(text, token, value, p + 1)

RECURSIVE LiteralRender(_, _)
LiteralRender(text, entries) ==
    IF entries = <<>> THEN text
    ELSE LiteralRender(
             LiteralReplaceFrom(text, Placeholder(Head(entries).key),
                                String(Head(entries).value), 1),
             Tail(entries))

TemplateApplied ==
    /\ fnIn # <<>>
    /\ fnIn.fn = "processTemplate"
    /\ IsSome(fnIn.variables)
    /\ fnOut # <<>>

\* C8: whatever characters the keys contain, processTemplate replaces every
\* occurrence of the literal token {{key}}, and no other text, for each key.
C8_LiteralTokensReplaced ==
    TemplateApplied =>
        /\ ~fnOut[1].threw
        /\ fnOut[1].text = LiteralRender(fnIn.template, fnIn.variables[1])

\* The text between the braces of a placeholder.
Inner(placeholder) == SubSeq(placeholder, 3, Len(placeholder) - 2)

EveryPlaceholderHasKey(template, entries) ==
    \A m \in Range(matchPlaceholders(template)) :
        \E i \in 1..Len(entries) : entries[i].key = Inner(m)

\* C9: when every {{key}} of the template has its key in the map, the text
\* processTemplate returns holds no {{...}} placeholder and no warning is
\* raised.
C9_NothingLeftUnresolved ==
    (/\ TemplateApplied
     /\ EveryPlaceholderHasKey(fnIn.template, fnIn.variables[1])
     /\ ~fnOut[1].threw) =>
        /\ fnOut[1].unsubstituted = <<>>
        /\ matchPlaceholders(fnOut[1].text) = <<>>

-----------------------------------------------------------------------------
(* Specification of matchPromptsWithSamples alone: a list of loaded        *)
(* prompts, a samples map and a filter are drawn, then the function is     *)
(* applied.  The names differ by case only ("A", "a") or by a suffix       *)
(* ("A", "AB").                                                            *)

MaxPrompts == 2

MatchNames == {"A", "a", "AB"}

MatchPrompt(name) == PromptDoc(Some(name), Some(TemplateA), None, None, None).doc

MatchCollections ==
    { [prompt_name |-> None, test_cases |-> Some(<<>>)],
      [prompt_name |-> None, test_cases |-> Some(<<Case2>>)] }

MatchMaps == UNION {[keys -> MatchCollections] : keys \in SUBSET MatchNames}

MatchFilters == {None, Some(""), Some("A"), Some("a")}

MatchInit ==
    /\ IdleRun
    /\ fnOut = <<>>
    /\ \E ns \in SeqUpTo(MatchNames, MaxPrompts), m \in MatchMaps, f \in MatchFilters :
           fnIn = [fn |-> "matchPromptsWithSamples",
                   prompts |-> [i \in 1..Len(ns) |-> MatchPrompt(ns[i])],
                   samples |-> m, filter |-> f]

ApplyMatch ==
    /\ fnIn.fn = "matchPromptsWithSamples"
    /\ fnOut = <<>>
    /\ fnOut' = <<matchPromptsWithSamples(fnIn.prompts, fnIn.samples, fnIn.filter)>>
    /\ UNCHANGED <<fnIn, runVars>>

MatchNext == ApplyMatch

SpecMatch == MatchInit /\ [][MatchNext]_vars

-----------------------------------------------------------------------------
(* Properties of matchPromptsWithSamples (under SpecMatch).                *)

MatchApplied == fnOut # <<>> /\ fnIn.fn = "matchPromptsWithSamples"

\* The prompts of prompts that have a collection of their exact name.
RECURSIVE WithCollection(_, _)
WithCollection(prompts, samples) ==
    IF prompts = <<>> THEN <<>>
    ELSE IF Head(prompts).name[1] \in DOMAIN samples
         THEN <<Head(prompts)>> \o WithCollection(Tail(prompts), samples)
         ELSE WithCollection(Tail(prompts), samples)

PairedPrompts(pairs) == [i \in 1..Len(pairs) |-> pairs[i].prompt]

\* C11: when a filter is set, to any string, every returned pair has a
\* prompt whose name equals the filter; when no filter is set, no prompt
\* is left out by filtering (every prompt with a collection is paired).
C11_FilterIsExact ==
    MatchApplied =>
        /\ IsSome(fnIn.filter) =>
               \A i \in 1..Len(fnOut[1].pairs) :
                   fnOut[1].pairs[i].prompt.name[1] = fnIn.filter[1]
        /\ ~IsSome(fnIn.filter) =>
               PairedPrompts(fnOut[1].pairs) = WithCollection(fnIn.prompts, fnIn.samples)

\* The prompts a filter lets through, the filter being unset or a name.
RECURSIVE PassingFilter(_, _)
PassingFilter(prompts, filter) ==
    IF prompts = <<>> THEN <<>>
    ELSE IF IsSome(filter) /\ Head(prompts).name[1] # filter[1]
         THEN PassingFilter(Tail(prompts), filter)
         ELSE <<Head(prompts)>> \o PassingFilter(Tail(prompts), filter)

\* C12: for a filter that is unset or a non-empty name, the pairs are, in
\* prompt load order, one pair for each prompt that passes the filter and
\* whose name is exactly a key of the samples map, each with the
\* collection of that key, with or without test cases; no other prompt is
\* paired.
C12_OnePairPerMatchedPrompt ==
    (MatchApplied /\ fnIn.filter # Some("")) =>
        LET expected == WithCollection(PassingFilter(fnIn.prompts, fnIn.filter), fnIn.samples)
            pairs == fnOut[1].pairs
        IN /\ PairedPrompts(pairs) = expected
           /\ \A i \in 1..Len(pairs) :
                  pairs[i].samples = fnIn.samples[pairs[i].prompt.name[1]]

\* Prompts "A" then "a" against a map keyed "A" and "a": two pairs in
\* load order, the first on a collection without test cases.
C12_Witness ==
    /\ MatchApplied
    /\ fnIn.filter = None
    /\ Len(fnIn.prompts) = 2
    /\ fnIn.prompts[1].name = Some("A") /\ fnIn.prompts[2].name = Some("a")
    /\ DOMAIN fnIn.samples = {"A", "a"}
    /\ fnIn.samples["A"].test_cases = Some(<<>>)
    /\ fnIn.samples["a"].test_cases # Some(<<>>)
    /\ Len(fnOut[1].pairs) = 2
    /\ fnOut[1].pairs[1].prompt.name = Some("A")

-----------------------------------------------------------------------------
(* Properties of discovery, of the resolved settings and of the exit code  *)
(* (under Spec).                                                           *)

\* run() got past loadPrompts and loadSamples.
Discovered ==
    /\ pc # "start"
    /\ ~loadPrompts(config.promptDir).threw
    /\ ~loadSamples(config.samplesDir).threw

LoadedPrompts == loadPrompts(config.promptDir).prompts

LoadedSamples == loadSamples(config.samplesDir).map

\* The name under which a readable sample file's collection is kept.
CollectionKey(file) ==
    IF file.content.kind = "object" /\ TruthyString(file.content.prompt_name)
    THEN file.content.prompt_name[1] ELSE file.stem

\* The warning names the collection n or a sample file that holds it.
WarnsAboutCollection(w, n) ==
    \/ w.text = "No samples found for prompt" /\ w.about = n
    \/ /\ w.text = "Failed to load sample file"
       /\ \E k \in 1..Len(config.samplesDir[1]) :
              LET file == config.samplesDir[1][k] IN
              /\ file.name = w.about
              /\ file.content.kind # "throws"
              /\ CollectionKey(file) = n

OrphanCollections ==
    {n \in DOMAIN LoadedSamples :
         \A k \in 1..Len(LoadedPrompts) : LoadedPrompts[k].name[1] # n}

\* C13: a sample collection whose name matches no loaded prompt gives no
\* TestResult and exactly one warning about it.
C13_OrphanCollectionWarned ==
    Discovered =>
        \A n \in OrphanCollections :
            /\ \A i \in 1..Len(AllResults) : AllResults[i].prompt_name # n
            /\ Cardinality({i \in 1..Len(warnings) : WarnsAboutCollection(warnings[i], n)}) = 1

\* The prompt of the i-th result pushed.
PromptOfOutcome(o) == testPairs[o.pair].prompt

Given(o) == IsSome(o) /\ o[1] # ""

\* C14: in every TestResult, with or without error, model_used is the
\* override when one is given, else the prompt's model when it has one,
\* else "gpt-3.5-turbo" (a model being a non-empty name).
C14_ModelPrecedence ==
    \A i \in 1..Len(outcomes) :
        i <= Len(AllResults) =>
            LET prompt == PromptOfOutcome(outcomes[i]) IN
            AllResults[i].model_used =
                IF Given(config.modelOverride) THEN config.modelOverride[1]
                ELSE IF Given(prompt.model) THEN prompt.model[1]
                ELSE "gpt-3.5-turbo"

\* With an override, results of a prompt that has its own model and of one
\* that has none, one of them an error result: all carry the override.
C14_Witness ==
    /\ config.modelOverride = Some("gpt-4o")
    /\ \E i, j \in 1..Len(AllResults) :
           /\ i <= Len(outcomes) /\ j <= Len(outcomes)
           /\ PromptOfOutcome(outcomes[i]).model = Some("gpt-4")
           /\ PromptOfOutcome(outcomes[j]).model = None
           /\ HasError(AllResults[i]) /\ ~HasError(AllResults[j])
           /\ AllResults[i].model_used = "gpt-4o"
           /\ AllResults[j].model_used = "gpt-4o"

\* C15: the temperature sent is the prompt's whenever the prompt sets one,
\* whatever its value, and 0.1 when unset; max_tokens sent is the prompt's
\* whenever set and 500 when unset.
C15_SettingsSentAsSet ==
    \A c \in 1..Len(calls) :
        LET prompt == testPairs[calls[c].pair].prompt IN
        /\ calls[c].request.temperature =
               IF IsSome(prompt.temperature) THEN prompt.temperature[1] ELSE 1
        /\ calls[c].request.max_tokens =
               IF IsSome(prompt.max_tokens) THEN prompt.max_tokens[1] ELSE 500

\* A directory is missing, or the prompts directory lists no YAML file.
DiscoveryImpossible ==
    \/ ~IsSome(config.promptDir)
    \/ ~IsSome(config.samplesDir)
    \/ IsSome(config.promptDir) /\ SelectSeq(config.promptDir[1], IsYaml) = <<>>

\* C16: when a directory does not exist or the prompts directory holds no
\* YAML file, run() throws before any test case: no invocation is made,
\* no result exists and the reporter is never called.
C16_DiscoveryErrorsAreFatal ==
    (pc # "start" /\ DiscoveryImpossible) =>
        /\ pc = "thrown"
        /\ fatal # <<>>
        /\ returned = <<>>
        /\ calls = <<>>
        /\ AllResults = <<>>
        /\ reported = <<>>

\* run() threw on a missing samples directory although a valid prompt was
\* there.
C16_Witness ==
    /\ pc = "thrown"
    /\ fatal = <<"Samples directory not found">>
    /\ ~IsSome(config.samplesDir)
    /\ IsSome(config.promptDir)
    /\ ~loadPrompts(config.promptDir).threw
    /\ loadPrompts(config.promptDir).prompts # <<>>

\* C17: when no prompt file parses into a valid prompt definition, the
\* run aborts fatally.
C17_NoValidPromptIsFatal ==
    (Discovered /\ LoadedPrompts = <<>>) => pc = "thrown" /\ fatal # <<>>

MalformedPromptFile(file) ==
    /\ IsYaml(file)
    /\ \/ file.content.kind = "throws"
       \/ ~TruthyString(file.content.doc.name)
       \/ ~TruthyString(file.content.doc.template)

MalformedSampleFile(file) ==
    /\ IsJson(file)
    /\ \/ file.content.kind = "throws"
       \/ file.content.kind = "object" /\ ~IsSome(file.content.test_cases)

WellFormedSampleFiles == SelectSeq(config.samplesDir[1], LAMBDA f : IsJson(f) /\ ~MalformedSampleFile(f))

\* C18: a malformed prompt or sample file is skipped with a warning naming
\* it, contributes no prompt and no collection to matching (the samples
\* map is the one the well-formed files alone give), and the run does not
\* throw.
C18_MalformedFileSkipped ==
    Discovered =>
        /\ \A k \in 1..Len(config.promptDir[1]) :
               LET file == config.promptDir[1][k] IN
               MalformedPromptFile(file) =>
                   /\ \E w \in Range(warnings) :
                          /\ w.text \in {"Failed to load prompt file", "Skipping invalid prompt file"}
                          /\ w.about = file.name
                   /\ file.content.kind = "doc" =>
                          \A i \in 1..Len(LoadedPrompts) : LoadedPrompts[i] # file.content.doc
        /\ \A k \in 1..Len(config.samplesDir[1]) :
               LET file == config.samplesDir[1][k] IN
               MalformedSampleFile(file) =>
                   \E w \in Range(warnings) :
                       w.text = "Failed to load sample file" /\ w.about = file.name
        /\ LoadedSamples = loadSamples(Some(WellFormedSampleFiles)).map
        /\ pc # "thrown"

\* C19: the process exits with code 0 exactly when run() completed and no
\* returned TestResult has passed = false; otherwise, a failed result or a
\* fatal error, it exits with code 1.
C19_ExitCode ==
    exitCode # <<>> =>
        /\ exitCode[1] \in {0, 1}
        /\ exitCode[1] = 0 <=>
               /\ returned # <<>>
               /\ \A i \in 1..Len(returned[1]) : returned[1][i].passed
        /\ fatal # <<>> => exitCode[1] = 1

\* run() completed with passed and failed results and the process exited
\* with code 1.
C19_Witness ==
    /\ exitCode = <<1>>
    /\ returned # <<>>
    /\ fatal = <<>>
    /\ \E i, j \in 1..Len(returned[1]) :
           returned[1][i].passed /\ ~returned[1][j].passed /\ ~HasError(returned[1][j])

-----------------------------------------------------------------------------
(* JsonReporter.report: the summary of a result sequence.  pass_rate is    *)
(* kept in tenths of a percent (667 is 66.7).                              *)

RECURSIVE CountPassed(_)
CountPassed(rs) ==
    IF rs = <<>> THEN 0
    ELSE (IF Head(rs).passed THEN 1 ELSE 0) + CountPassed(Tail(rs))

\* results.reduce((sum, r) => sum + r.execution_time_ms, 0)
RECURSIVE SumTimes(_)
SumTimes(rs) ==
    IF rs = <<>> THEN 0 ELSE Head(rs).execution_time_ms + SumTimes(Tail(rs))

\* Mutant of PassRate: the digits after the first decimal are cut off.
PassRateTruncated(passed, total) ==
    IF total > 0 THEN (1000 * passed) \div total ELSE 0

\* total > 0 ? parseFloat(((passed / total) * 100).toFixed(1)) : 0.
\* toFixed(1) takes the nearest tenth and, of two equally near, the larger.
PassRate(passed, total) ==
    IF total > 0 THEN (2000 * passed + total) \div (2 * total) ELSE 0

JsonReport(rs) ==
    LET passed == CountPassed(rs)
        total == Len(rs)
        totalTime == SumTimes(rs)
    IN [summary |-> [total_tests |-> total,
                     passed |-> passed,
                     failed |-> total - passed,
                     pass_rate |-> PassRate(passed, total),
                     total_execution_time_ms |-> totalTime],
        results |-> rs]

\* Specification of JsonReporter.report alone: a result sequence is drawn,
\* then reported.
MaxResults == 3

MaxTime == 2

ReportedResults ==
    SeqUpTo([prompt_name : {"A"}, passed : BOOLEAN, execution_time_ms : 0..MaxTime], MaxResults)

ReportInit ==
    /\ IdleRun
    /\ fnOut = <<>>
    /\ \E rs \in ReportedResults : fnIn = [fn |-> "report", results |-> rs]

ApplyReport ==
    /\ fnIn.fn = "report"
    /\ fnOut = <<>>
    /\ fnOut' = <<JsonReport(fnIn.results)>>
    /\ UNCHANGED <<fnIn, runVars>>

ReportNext == ApplyReport

SpecReport == ReportInit /\ [][ReportNext]_vars

ReportApplied == fnOut # <<>> /\ fnIn.fn = "report"

Abs(n) == IF n < 0 THEN -n ELSE n

\* C20: the summary has total_tests = number of results, passed = number
\* of results with passed = true, failed = total_tests - passed,
\* total_execution_time_ms = sum of the execution times, and pass_rate = 0
\* when there is no result and otherwise the tenth of a percent nearest to
\* 100 * passed / total_tests.
C20_SummaryArithmetic ==
    ReportApplied =>
        LET rs == fnIn.results
            sm == fnOut[1].summary
            passedOnes == {i \in 1..Len(rs) : rs[i].passed}
            timeUpTo[i \in 0..Len(rs)] ==
                IF i = 0 THEN 0 ELSE timeUpTo[i - 1] + rs[i].execution_time_ms
        IN /\ sm.total_tests = Len(rs)
           /\ sm.passed = Cardinality(passedOnes)
           /\ sm.failed = sm.total_tests - sm.passed
           /\ sm.total_execution_time_ms = timeUpTo[Len(rs)]
           /\ sm.total_tests = 0 => sm.pass_rate = 0
           /\ sm.total_tests > 0 =>
                  2 * Abs(sm.pass_rate * sm.total_tests - 1000 * sm.passed) <= sm.total_tests

\* Two of three results passed: the rate is 66.7.
C20_Witness ==
    /\ ReportApplied
    /\ Len(fnIn.results) = 3
    /\ fnOut[1].summary.passed = 2
    /\ fnOut[1].summary.failed = 1
    /\ fnOut[1].summary.pass_rate = 667
    /\ fnOut[1].summary.total_execution_time_ms = 5

-----------------------------------------------------------------------------
(* Properties of the order of the model invocations (under Spec).          *)

\* The case <<p, c>> comes before the case <<q, d>> in pair-then-case order.
CaseBefore(p, c, q, d) == p < q \/ (p = q /\ c < d)

\* The test cases of the pairs up to pair q, as <<pair, case>>.
CasesUpTo(q) ==
    UNION { {<<p, c>> : c \in 1..Len(CasesOf(testPairs[p]))} : p \in 1..q }

HasResult(p, c) ==
    \E i \in 1..Len(outcomes) :
        i <= Len(AllResults) /\ outcomes[i].pair = p /\ outcomes[i].case = c

\* The invocations made whose case has no result yet.
Outstanding == {k \in 1..Len(calls) : ~HasResult(calls[k].pair, calls[k].case)}

\* C21: at most one model invocation is outstanding, and when a test
\* case's invocation has been made every earlier test case, in
\* pair-then-case order, has its result in the result sequence.
C21_OneAtATime ==
    /\ Cardinality(Outstanding) <= 1
    /\ Len(pending) <= 1
    /\ (Outstanding # {}) <=> (pc = "await")
    /\ \A k \in 1..Len(calls) :
           /\ \A b \in CasesUpTo(calls[k].pair) :
                  CaseBefore(b[1], b[2], calls[k].pair, calls[k].case) => HasResult(b[1], b[2])
           /\ \A j \in 1..Len(calls) :
                  j < k => CaseBefore(calls[j].pair, calls[j].case, calls[k].pair, calls[k].case)

\* The first case of the second pair is being invoked: the two cases of
\* the first pair have their results, one of them without any invocation.
C21_Witness ==
    /\ pc = "await"
    /\ pairIdx = 2 /\ caseIdx = 1
    /\ Len(results) = 2
    /\ Len(calls) = 2
    /\ Cardinality(Outstanding) = 1

\* C22: no test case is invoked twice, and a case whose invocation failed
\* has a result with an error and passed = false.
C22_NoRetry ==
    /\ \A j, k \in 1..Len(calls) :
           (calls[j].pair = calls[k].pair /\ calls[j].case = calls[k].case) => j = k
    /\ \A i \in 1..Len(outcomes) :
           outcomes[i].threw = "invocation" =>
               /\ i <= Len(AllResults)
               /\ HasError(AllResults[i])
               /\ ~AllResults[i].passed
               /\ AllResults[i].test_case_name = CaseOfOutcome(outcomes[i]).name

\* An invocation failed, the run went on to invoke a later case, and the
\* failed case was invoked once.
C22_Witness ==
    \E i \in 1..Len(outcomes) :
        /\ outcomes[i].threw = "invocation"
        /\ Cardinality({k \in 1..Len(calls) :
               calls[k].pair = outcomes[i].pair /\ calls[k].case = outcomes[i].case}) = 1
        /\ \E k \in 1..Len(calls) :
               CaseBefore(outcomes[i].pair, outcomes[i].case, calls[k].pair, calls[k].case)
        /\ pc = "done"

-----------------------------------------------------------------------------
(* Properties of the text processTemplate inserts (under SpecTemplate).    *)

\* Keys made of letters, which a regular expression reads as themselves.
PlainKeys == { <<"k">>, <<"b">> }

\* C23: whatever characters a value contains, the text put in place of
\* each {{key}} token is the string form of the value, character for
\* character (stated for one entry with a key of letters).
C23_ValueInsertedVerbatim ==
    (/\ TemplateApplied
     /\ Len(fnIn.variables[1]) = 1
     /\ fnIn.variables[1][1].key \in PlainKeys) =>
        /\ ~fnOut[1].threw
        /\ fnOut[1].text =
               LiteralReplaceFrom(fnIn.template, Placeholder(fnIn.variables[1][1].key),
                                  String(fnIn.variables[1][1].value), 1)

TokenAt(text, p, key) ==
    /\ p + Len(Placeholder(key)) - 1 <= Len(text)
    /\ SubSeq(text, p, p + Len(Placeholder(key)) - 1) = Placeholder(key)

\* The template's tokens replaced by their values in one pass over the
\* template: inserted text is never looked at.
RECURSIVE OnePassRender(_, _, _)
OnePassRender(text, entries, p) ==
    IF p > Len(text) THEN <<>>
    ELSE LET hits == {i \in 1..Len(entries) : TokenAt(text, p, entries[i].key)} IN
         IF hits = {} THEN <<text[p]>> \o OnePassRender(text, entries, p + 1)
         ELSE LET i == CHOOSE h \in hits : TRUE IN
              String(entries[i].value)
                  \o OnePassRender(text, entries, p + Len(Placeholder(entries[i].key)))

\* Values whose characters mean nothing to String.replace.
PlainValue(value) == value.type = "boolean" \/ "$" \notin Range(value.chars)

\* C24: inserted text is not scanned again: for every key order of the
\* map, the rendered text is the template with its own tokens replaced, so
\* that a value holding {{k}} for another key k stays as inserted (stated
\* for keys of letters and values without "$").
C24_InsertedTextNotRescanned ==
    (/\ TemplateApplied
     /\ \A i \in 1..Len(fnIn.variables[1]) :
            /\ fnIn.variables[1][i].key \in PlainKeys
            /\ PlainValue(fnIn.variables[1][i].value)) =>
        /\ ~fnOut[1].threw
        /\ fnOut[1].text = OnePassRender(fnIn.template, fnIn.variables[1], 1)

-----------------------------------------------------------------------------
(* Properties of the end of the run (under Spec).                          *)

\* What matching gives on the loaded prompts and samples.
MatchedPairs ==
    matchPromptsWithSamples(LoadedPrompts, LoadedSamples, config.filter).pairs

\* C25: when matching yields zero pairs, run() returns the empty result
\* sequence, does not throw and makes no model invocation.
C25_NoPairReturnsEmpty ==
    (Discovered /\ MatchedPairs = <<>>) =>
        /\ pc = "done"
        /\ fatal = <<>>
        /\ returned = << <<>> >>
        /\ calls = <<>>
        /\ AllResults = <<>>

\* A valid prompt "A" with its collection was loaded, and the filter "B"
\* excluded it: run() returned the empty sequence.
C25_Witness ==
    /\ Discovered
    /\ config.filter = Some("B")
    /\ Len(LoadedPrompts) = 1
    /\ LoadedPrompts[1].name = Some("A")
    /\ "A" \in DOMAIN LoadedSamples
    /\ returned = << <<>> >>
    /\ calls = <<>>

\* The invocations made for the case <<p, c>>.
CallsOf(p, c) == {k \in 1..Len(calls) : calls[k].pair = p /\ calls[k].case = c}

\* C26: whatever the override and the prompt's model, empty strings
\* included, a TestResult's model_used is the model name that was sent to
\* the model API for its test case.
C26_ModelUsedIsModelSent ==
    \A i \in 1..Len(outcomes) :
        i <= Len(AllResults) =>
            \A k \in CallsOf(outcomes[i].pair, outcomes[i].case) :
                AllResults[i].model_used = calls[k].request.model

\* An empty override over a prompt whose model is empty: the default was
\* sent and recorded; in the same run a prompt's own model was.
C26_Witness ==
    /\ config.modelOverride = Some("")
    /\ \E i, j \in 1..Len(outcomes) :
           /\ i <= Len(AllResults) /\ j <= Len(AllResults)
           /\ PromptOfOutcome(outcomes[i]).model = Some("")
           /\ CallsOf(outcomes[i].pair, outcomes[i].case) # {}
           /\ AllResults[i].model_used = "gpt-3.5-turbo"
           /\ PromptOfOutcome(outcomes[j]).model = Some("gpt-4")
           /\ CallsOf(outcomes[j].pair, outcomes[j].case) # {}
           /\ AllResults[j].model_used = "gpt-4"

\* C27: the reporter is called at most once; a run that matched a pair
\* and returned has called it once, with the sequence run() returns and
\* after every test case's result was appended, even when there is no
\* test case; it is not called when no pair matched or run() threw.
C27_ReportedOnce ==
    /\ Len(reported) <= 1
    /\ reported # <<>> =>
           /\ pc = "done"
           /\ testPairs # <<>>
           /\ reported = returned
           /\ Len(reported[1]) = TotalCases(testPairs)
           /\ Labels(reported[1]) = ExpectedLabels
    /\ (pc = "done" /\ testPairs # <<>>) => Len(reported) = 1
    /\ (pc = "done" /\ testPairs = <<>>) => reported = <<>>
    /\ pc = "thrown" => reported = <<>>

\* A pair was matched on a collection without test cases: the empty
\* sequence was reported once and returned.
C27_Witness ==
    /\ pc = "done"
    /\ Len(testPairs) = 1
    /\ CasesOf(testPairs[1]) = <<>>
    /\ reported = << <<>> >>
    /\ returned = << <<>> >>

====
